---------------------------- MODULE Spec2Model ----------------------------
(***************************************************************************)
(* pluralize-rs (src/src/lib.rs): singular/plural conversion of English    *)
(* nouns.  Strings are sequences of one-character strings; a byte offset   *)
(* of the Rust code is the number of characters before it (ASCII only).    *)
(***************************************************************************)
EXTENDS Naturals, Sequences, FiniteSets, TLC

(***************************************************************************)
(* Characters and the voca_rs::case functions the code calls.              *)
(***************************************************************************)
LowerChars ==
    <<"a","b","c","d","e","f","g","h","i","j","k","l","m",
      "n","o","p","q","r","s","t","u","v","w","x","y","z">>

UpperChars ==
    <<"A","B","C","D","E","F","G","H","I","J","K","L","M",
      "N","O","P","Q","R","S","T","U","V","W","X","Y","Z">>

\* "-" stands for the non-alphanumeric characters, "$" and the digits occur
\* in replacement templates.
OtherChars == {"-", "$", "0", "1", "2"}

Letters == 1..Len(LowerChars)

AllChars ==
    {LowerChars[i] : i \in Letters} \cup {UpperChars[i] : i \in Letters}
        \cup OtherChars

is_lowercase(c) == \E i \in Letters : LowerChars[i] = c

is_uppercase(c) == \E i \in Letters : UpperChars[i] = c

is_alphanumeric(c) == c \in AllChars \ {"-", "$"}

lowerOf[c \in AllChars] ==
    IF is_uppercase(c)
    THEN LowerChars[CHOOSE i \in Letters : UpperChars[i] = c]
    ELSE c

upperOf[c \in AllChars] ==
    IF is_lowercase(c)
    THEN UpperChars[CHOOSE i \in Letters : LowerChars[i] = c]
    ELSE c

\* voca_rs::case::lower_case: str::to_lowercase
lower_case(s) == [i \in 1..Len(s) |-> lowerOf[s[i]]]

\* voca_rs::case::upper_case: str::to_uppercase
upper_case(s) == [i \in 1..Len(s) |-> upperOf[s[i]]]

\* voca_rs::case::capitalize(subject, rest_to_lower)
capitalize(s, rest_to_lower) ==
    IF s = <<>> THEN s
    ELSE <<upperOf[s[1]]>> \o (IF rest_to_lower THEN lower_case(Tail(s)) ELSE Tail(s))

\* voca_rs::case::upper_first: only the first character changes
upper_first(s) == capitalize(s, FALSE)

\* voca_rs::split::words on one run of alphanumerics: a boundary between a
\* lowercase and an uppercase character, and before the last capital of a
\* run of capitals that a lowercase character follows.  Returns the words
\* of s[init+1..], the scan standing before character i (1-based).
RECURSIVE split_camel_case(_, _, _, _)
split_camel_case(s, i, init, mode) ==
    IF i > Len(s) THEN <<>>
    ELSE IF i = Len(s) THEN <<SubSeq(s, init + 1, Len(s))>>
    ELSE
        LET c == s[i]
            next == s[i + 1]
            next_mode == IF is_lowercase(c) THEN "Lowercase"
                         ELSE IF is_uppercase(c) THEN "Uppercase"
                         ELSE mode
        IN  IF next_mode = "Lowercase" /\ is_uppercase(next)
            THEN <<SubSeq(s, init + 1, i)>> \o split_camel_case(s, i + 1, i, "Boundary")
            ELSE IF mode = "Uppercase" /\ is_uppercase(c) /\ is_lowercase(next)
            THEN <<SubSeq(s, init + 1, i - 1)>>
                     \o split_camel_case(s, i + 1, i - 1, "Boundary")
            ELSE split_camel_case(s, i + 1, init, next_mode)

\* voca_rs::split::words: the runs of alphanumerics of s, each split as above.
\* i is the scan position, from the start of the current run.
RECURSIVE words(_, _, _)
words(s, i, from) ==
    IF i > Len(s)
    THEN split_camel_case(SubSeq(s, from, Len(s)), 1, 0, "Boundary")
    ELSE IF is_alphanumeric(s[i])
    THEN words(s, i + 1, from)
    ELSE split_camel_case(SubSeq(s, from, i - 1), 1, 0, "Boundary")
             \o words(s, i + 1, i + 1)

RECURSIVE join(_)
join(ws) == IF ws = <<>> THEN <<>> ELSE Head(ws) \o join(Tail(ws))

\* voca_rs::case::camel_case: the first word lowercase, the others capitalized
camel_case(s) ==
    LET ws == words(s, 1, 1)
    IN  join([i \in 1..Len(ws) |->
                 IF i = 1 THEN lower_case(ws[i])
                 ELSE capitalize(lower_case(ws[i]), TRUE)])

\* restore_case with the all-uppercase test before the all-lowercase test
restore_case_upper_before_lower(origin, to_restore) ==
    IF origin = to_restore THEN to_restore
    ELSE IF origin = upper_case(origin) THEN upper_case(to_restore)
    ELSE IF origin = lower_case(origin) THEN lower_case(to_restore)
    ELSE IF origin = upper_first(origin) THEN upper_first(to_restore)
    ELSE IF origin = camel_case(origin) THEN camel_case(to_restore)
    ELSE lower_case(to_restore)

restore_case(origin, to_restore) ==
    IF origin = to_restore THEN to_restore
    ELSE IF origin = lower_case(origin) THEN lower_case(to_restore)
    ELSE IF origin = upper_case(origin) THEN upper_case(to_restore)
    ELSE IF origin = upper_first(origin) THEN upper_first(to_restore)
    ELSE IF origin = camel_case(origin) THEN camel_case(to_restore)
    ELSE lower_case(to_restore)

(***************************************************************************)
(* Regular expressions (regex::Regex built with case_insensitive(true)).   *)
(* A pattern is a syntax tree; Match gives the ends and capture groups of  *)
(* its matches at one start offset, in the order a leftmost-first          *)
(* (backtracking-equivalent) engine prefers them.                          *)
(***************************************************************************)
Lit(c) == <<"lit", c>>
In(S) == <<"in", S>>
NotIn(S) == <<"notin", S>>
Cat(a, b) == <<"cat", a, b>>
Alt(a, b) == <<"alt", a, b>>
Opt(a) == <<"opt", a>>
Grp(n, a) == <<"grp", n, a>>
Eol == <<"eol">>
Bol == <<"bol">>

\* a literal string
RECURSIVE Str(_)
Str(s) == IF Len(s) = 1 THEN Lit(s[1]) ELSE Cat(Lit(s[1]), Str(Tail(s)))

\* no group has taken part in the match yet
NoGroups == <<<<>>, <<>>>>

RECURSIVE Match(_, _, _, _)
RECURSIVE MatchThen(_, _, _)
MatchThen(rest, w, ms) ==
    IF ms = <<>> THEN <<>>
    ELSE Match(rest, w, Head(ms)[1], Head(ms)[2]) \o MatchThen(rest, w, Tail(ms))

Match(re, w, i, groups) ==
    CASE re[1] = "lit" ->
            IF i < Len(w) /\ lowerOf[w[i + 1]] = lowerOf[re[2]]
            THEN << <<i + 1, groups>> >> ELSE <<>>
      [] re[1] = "in" ->
            IF i < Len(w) /\ lowerOf[w[i + 1]] \in re[2]
            THEN << <<i + 1, groups>> >> ELSE <<>>
      [] re[1] = "notin" ->
            IF i < Len(w) /\ lowerOf[w[i + 1]] \notin re[2]
            THEN << <<i + 1, groups>> >> ELSE <<>>
      [] re[1] = "cat" -> MatchThen(re[3], w, Match(re[2], w, i, groups))
      [] re[1] = "alt" -> Match(re[2], w, i, groups) \o Match(re[3], w, i, groups)
      [] re[1] = "opt" -> Match(re[2], w, i, groups) \o << <<i, groups>> >>
      [] re[1] = "grp" ->
            LET ms == Match(re[3], w, i, groups)
            IN  [k \in 1..Len(ms) |->
                    <<ms[k][1], [ms[k][2] EXCEPT ![re[2]] = <<i, ms[k][1]>>]>>]
      [] re[1] = "eol" -> IF i = Len(w) THEN << <<i, groups>> >> ELSE <<>>
      [] re[1] = "bol" -> IF i = 0 THEN << <<i, groups>> >> ELSE <<>>

\* Regex::captures: the leftmost match, <<>> for None.  start/end are the
\* offsets of group 0, groups[n] is <<>> or <<start, end>> of group n.
RECURSIVE CapturesFrom(_, _, _)
CapturesFrom(re, w, s) ==
    IF s > Len(w) THEN <<>>
    ELSE LET ms == Match(re, w, s, NoGroups)
         IN  IF ms # <<>>
             THEN <<[start |-> s, end |-> ms[1][1], groups |-> ms[1][2]]>>
             ELSE CapturesFrom(re, w, s + 1)

captures(re, w) == CapturesFrom(re, w, 0)

\* Regex::find(..).is_some()
find_is_some(re, w) == captures(re, w) # <<>>

\* str::replace: every non-overlapping occurrence of from, left to right
RECURSIVE str_replace(_, _, _)
str_replace(s, from, to) ==
    IF Len(s) < Len(from) THEN s
    ELSE IF SubSeq(s, 1, Len(from)) = from
    THEN to \o str_replace(SubSeq(s, Len(from) + 1, Len(s)), from, to)
    ELSE <<Head(s)>> \o str_replace(Tail(s), from, to)


(***************************************************************************)
(* Words used by the tables and as inputs.                                 *)
(***************************************************************************)
W_box == <<"b","o","x">>

W_boxes == <<"b","o","x","e","s">>

W_child == <<"c","h","i","l","d">>

W_children == <<"c","h","i","l","d","r","e","n">>

W_class == <<"c","l","a","s","s">>

W_ladies == <<"l","a","d","i","e","s">>

W_lady == <<"l","a","d","y">>

W_me == <<"m","e">>

W_ox == <<"o","x">>

W_oxen == <<"o","x","e","n">>

W_people == <<"p","e","o","p","l","e">>

W_person == <<"p","e","r","s","o","n">>

W_pious == <<"p","i","o","u","s">>

W_sheep == <<"s","h","e","e","p">>

W_them == <<"t","h","e","m">>

W_us == <<"u","s">>

W_water == <<"w","a","t","e","r">>

W_waterfall == <<"w","a","t","e","r","f","a","l","l">>

W_word == <<"w","o","r","d">>

W_words == <<"w","o","r","d","s">>

W_you == <<"y","o","u">>

W_yourself == <<"y","o","u","r","s","e","l","f">>

W_yourselves == <<"y","o","u","r","s","e","l","v","e","s">>


(***************************************************************************)
(* The rule tables.  rules/*.txt and test-cases.txt are compiled in with   *)
(* include_str! and are not among the sources at hand.  Each definition    *)
(* below gives lines in the format the specification describes, in         *)
(* declared order, a pattern as the syntax tree of the regex the line      *)
(* spells: the specification's examples (water; child/children;            *)
(* word/words) and entries of each kind the format allows (capture-group   *)
(* templates, an identity-marker rule, a pair with equal components).      *)
(***************************************************************************)
Rule(pat, tmpl) == [pat |-> pat, tmpl |-> tmpl]

Vowels == {"a", "e", "i", "o", "u"}

\* rules/irregular.txt: singular = plural
irregular_txt ==
    << <<W_me, W_us>>,
       <<W_them, W_them>>,
       <<W_child, W_children>>,
       <<W_yourself, W_yourselves>>,
       <<W_ox, W_oxen>> >>

\* rules/uncountable.txt:  water / you / o[iu]s$
uncountable_txt ==
    << Str(W_water),
       Str(W_you),
       Cat(Lit("o"), Cat(In({"i", "u"}), Cat(Lit("s"), Eol))) >>

\* (x|ch|ss|sh|zz)
SibilantEnd ==
    Alt(Lit("x"), Alt(Str(<<"c","h">>), Alt(Str(<<"s","s">>),
        Alt(Str(<<"s","h">>), Str(<<"z","z">>)))))

\* rules/plural.txt:
\*   s?$ = s
\*   ([^aeiou]|qu)y$ = $1ies
\*   (x|ch|ss|sh|zz)$ = $1es
\*   (pe)(?:rson|ople)$ = $1ople
\*   sheep$ = $0
plural_txt ==
    << Rule(Cat(Opt(Lit("s")), Eol), <<"s">>),
       Rule(Cat(Grp(1, Alt(NotIn(Vowels), Str(<<"q","u">>))), Cat(Lit("y"), Eol)),
            <<"$","1","i","e","s">>),
       Rule(Cat(Grp(1, SibilantEnd), Eol), <<"$","1","e","s">>),
       Rule(Cat(Grp(1, Str(<<"p","e">>)),
                Cat(Alt(Str(<<"r","s","o","n">>), Str(<<"o","p","l","e">>)), Eol)),
            <<"$","1","o","p","l","e">>),
       Rule(Cat(Str(W_sheep), Eol), <<"$","0">>) >>

\* rules/singular.txt:
\*   s$ =
\*   (ss)$ = $1
\*   ies$ = y
\*   (x|ch|ss|sh|zz)(?:es)?$ = $1
\*   (pe)(rson|ople)$ = $1rson
\*   sheep$ = $0
singular_txt ==
    << Rule(Cat(Lit("s"), Eol), <<>>),
       Rule(Cat(Grp(1, Str(<<"s","s">>)), Eol), <<"$","1">>),
       Rule(Cat(Str(<<"i","e","s">>), Eol), <<"y">>),
       Rule(Cat(Grp(1, SibilantEnd), Cat(Opt(Str(<<"e","s">>)), Eol)), <<"$","1">>),
       Rule(Cat(Grp(1, Str(<<"p","e">>)),
                Cat(Grp(2, Alt(Str(<<"r","s","o","n">>), Str(<<"o","p","l","e">>))), Eol)),
            <<"$","1","r","s","o","n">>),
       Rule(Cat(Str(W_sheep), Eol), <<"$","0">>) >>

\* Iterator::rev
RECURSIVE rev(_)
rev(s) == IF s = <<>> THEN <<>> ELSE rev(Tail(s)) \o <<Head(s)>>

\* load_config_map!: the lines, compiled, in reverse order
load_config_map(lines) == rev(lines)

IRREGULAR == irregular_txt

PLURAL_RULES == load_config_map(plural_txt)

SINGLAR_RULES == load_config_map(singular_txt)

UNCOUNTABLE == uncountable_txt

(***************************************************************************)
(* The functions of lib.rs.                                                *)
(***************************************************************************)
\* the loop of lines 83-87: an irregular pair has lower_case as a component
RECURSIVE irregular_component(_, _)
irregular_component(lower, pairs) ==
    IF pairs = <<>> THEN FALSE
    ELSE IF lower = Head(pairs)[1] \/ lower = Head(pairs)[2] THEN TRUE
    ELSE irregular_component(lower, Tail(pairs))

\* the loop of lines 88-92
RECURSIVE any_uncountable(_, _)
any_uncountable(lower, res) ==
    IF res = <<>> THEN FALSE
    ELSE IF find_is_some(Head(res), lower) THEN TRUE
    ELSE any_uncountable(lower, Tail(res))

\* is_uncountable with the two loops in the other order
is_uncountable_patterns_first(w) ==
    LET lower == lower_case(w)
    IN  IF any_uncountable(lower, UNCOUNTABLE) THEN TRUE
        ELSE FALSE

is_uncountable(w) ==
    LET lower == lower_case(w)
    IN  IF irregular_component(lower, IRREGULAR) THEN FALSE
        ELSE any_uncountable(lower, UNCOUNTABLE)

\* find_map keeping the last rule that matches instead of the first
RECURSIVE find_map_last(_, _)
find_map_last(w, rules_) ==
    IF rules_ = <<>> THEN <<>>
    ELSE LET later == find_map_last(w, Tail(rules_))
             m == captures(Head(rules_).pat, w)
         IN  IF later # <<>> THEN later
             ELSE IF m # <<>> THEN <<[m |-> m[1], r |-> Head(rules_).tmpl]>>
             ELSE <<>>

\* rules.find_map(..): the first rule whose pattern has a match in w, with
\* the captures; <<>> for None
RECURSIVE find_map(_, _)
find_map(w, rules_) ==
    IF rules_ = <<>> THEN <<>>
    ELSE LET m == captures(Head(rules_).pat, w)
         IN  IF m # <<>> THEN <<[m |-> m[1], r |-> Head(rules_).tmpl]>>
             ELSE find_map(w, Tail(rules_))

\* m.get(n).map(|it| &word[it.start()..it.end()])
group_text(w, m, n) ==
    IF m.groups[n] = <<>> THEN <<>>
    ELSE SubSeq(w, m.groups[n][1] + 1, m.groups[n][2])

\* replace_with_rules keeping the text that follows the match
replace_with_rules_keep_suffix(w, rules_) ==
    LET found == find_map(w, rules_)
    IN  IF found = <<>> THEN w
        ELSE LET m == found[1].m
                 r == found[1].r
             IN  IF r = <<"$", "0">> THEN w
                 ELSE LET r1 == str_replace(r, <<"$", "1">>, group_text(w, m, 1))
                          r2 == str_replace(r1, <<"$", "2">>, group_text(w, m, 2))
                      IN  SubSeq(w, 1, m.start) \o r2 \o SubSeq(w, m.end + 1, Len(w))

replace_with_rules(w, rules_) ==
    LET found == find_map(w, rules_)
    IN  IF found = <<>> THEN w
        ELSE LET m == found[1].m
                 r == found[1].r
             IN  IF r = <<"$", "0">> THEN w
                 ELSE LET r1 == str_replace(r, <<"$", "1">>, group_text(w, m, 1))
                          r2 == str_replace(r1, <<"$", "2">>, group_text(w, m, 2))
                      IN  SubSeq(w, 1, m.start) \o r2

\* the loops of lines 138-142 and 193-197: the other form of the first pair
\* whose component at position from is lower; <<>> when there is none
RECURSIVE irregular_lookup(_, _, _, _)
irregular_lookup(lower, pairs, from, to) ==
    IF pairs = <<>> THEN <<>>
    ELSE IF lower = Head(pairs)[from] THEN <<Head(pairs)[to]>>
    ELSE irregular_lookup(lower, Tail(pairs), from, to)

\* to_plural without the is_uncountable test
to_plural_unchecked(w) ==
    LET irr == irregular_lookup(lower_case(w), IRREGULAR, 1, 2)
    IN  IF irr # <<>> THEN restore_case(w, irr[1])
        ELSE restore_case(w, replace_with_rules(w, PLURAL_RULES))

to_plural(w) ==
    IF is_uncountable(w) THEN w
    ELSE LET irr == irregular_lookup(lower_case(w), IRREGULAR, 1, 2)
         IN  IF irr # <<>> THEN restore_case(w, irr[1])
             ELSE restore_case(w, replace_with_rules(w, PLURAL_RULES))

\* to_singular reading the plural rule list
to_singular_plural_rules(w) ==
    IF is_uncountable(w) THEN w
    ELSE LET irr == irregular_lookup(lower_case(w), IRREGULAR, 2, 1)
         IN  IF irr # <<>> THEN restore_case(w, irr[1])
             ELSE restore_case(w, replace_with_rules(w, PLURAL_RULES))

to_singular(w) ==
    IF is_uncountable(w) THEN w
    ELSE LET irr == irregular_lookup(lower_case(w), IRREGULAR, 2, 1)
         IN  IF irr # <<>> THEN restore_case(w, irr[1])
             ELSE restore_case(w, replace_with_rules(w, SINGLAR_RULES))

\* the loops of lines 165-171 and 220-226: the first pair with lower as its
\* component no (checked first) or yes decides; <<>> when there is none
RECURSIVE irregular_decides(_, _, _, _)
irregular_decides(lower, pairs, no, yes) ==
    IF pairs = <<>> THEN <<>>
    ELSE IF lower = Head(pairs)[no] THEN <<FALSE>>
    ELSE IF lower = Head(pairs)[yes] THEN <<TRUE>>
    ELSE irregular_decides(lower, Tail(pairs), no, yes)

\* is_plural with the irregular pairs read as is_singular reads them
is_plural_swapped(w) ==
    IF is_uncountable(w) THEN FALSE
    ELSE LET lower == lower_case(w)
             irr == irregular_decides(lower, IRREGULAR, 2, 1)
         IN  IF irr # <<>> THEN irr[1]
             ELSE lower = replace_with_rules(lower, PLURAL_RULES)

is_plural(w) ==
    IF is_uncountable(w) THEN FALSE
    ELSE LET lower == lower_case(w)
             irr == irregular_decides(lower, IRREGULAR, 1, 2)
         IN  IF irr # <<>> THEN irr[1]
             ELSE lower = replace_with_rules(lower, PLURAL_RULES)

\* is_singular answering as its doc comment says
is_singular_as_documented(w) ==
    IF is_uncountable(w) THEN TRUE
    ELSE LET lower == lower_case(w)
             irr == irregular_decides(lower, IRREGULAR, 2, 1)
         IN  IF irr # <<>> THEN irr[1]
             ELSE lower = replace_with_rules(lower, SINGLAR_RULES)

is_singular(w) ==
    IF is_uncountable(w) THEN FALSE
    ELSE LET lower == lower_case(w)
             irr == irregular_decides(lower, IRREGULAR, 2, 1)
         IN  IF irr # <<>> THEN irr[1]
             ELSE lower = replace_with_rules(lower, SINGLAR_RULES)


\* tests::it_works over the lines of test-cases.txt: "passed", or "panicked"
\* at the first assertion that fails
RECURSIVE it_works(_)
it_works(cases) ==
    IF cases = <<>> THEN "passed"
    ELSE LET singular_ == Head(cases)[1]
             plural_ == Head(cases)[2]
         IN  IF /\ to_plural(singular_) = plural_
                /\ to_singular(plural_) = singular_
                /\ \/ is_uncountable(singular_)
                   \/ is_singular(singular_) /\ is_plural(plural_)
             THEN it_works(Tail(cases))
             ELSE "panicked"

\* test-cases.txt: singular, plural
test_cases_txt ==
    << <<W_word, W_words>>,
       <<W_child, W_children>>,
       <<W_water, W_water>> >>

(***************************************************************************)
(* Inputs: the words of a small dictionary in several casings, and every   *)
(* string of at most MaxLen characters over a small alphabet.              *)
(***************************************************************************)
MaxLen == 2

Alphabet == {"o", "s", "u", "O", "S", "U", "-"}

ShortWords == UNION {[1..n -> Alphabet] : n \in 0..MaxLen}

BaseWords ==
    { W_word, W_words, W_child, W_children, W_water, W_waterfall, W_you,
      W_yourself, W_yourselves, W_me, W_them, W_ox, W_oxen, W_pious,
      W_box, W_boxes, W_lady, W_ladies, W_person, W_people, W_class, W_sheep }

\* woRD: not one of the casings restore_case knows
TailUpper(w) == IF w = <<>> THEN w ELSE SubSeq(w, 1, 2) \o upper_case(SubSeq(w, 3, Len(w)))

\* worD: camel case
LastUpper(w) ==
    IF w = <<>> THEN w ELSE SubSeq(w, 1, Len(w) - 1) \o upper_case(<<w[Len(w)]>>)

Casings(w) == {w, upper_case(w), upper_first(w), TailUpper(w), LastUpper(w)}

Words == ShortWords \cup UNION {Casings(w) : w \in BaseWords}

(***************************************************************************)
(* State.  A result is <<>> before the call and <<value>> after it.        *)
(***************************************************************************)
VARIABLES
    word,       \* the caller's input
    isU,        \* is_uncountable(word)
    plural,     \* to_plural(word)
    singular,   \* to_singular(word)
    isP,        \* is_plural(word)
    isS,        \* is_singular(word)
    rt,         \* to_singular(to_plural(word))
    tests,      \* the outcome of tests::it_works
    cand,       \* the to_restore argument of a restore_case(word, _) call
    restored,   \* its result
    rules,      \* the rules argument of a replace_with_rules(word, _) call
    replaced,   \* its result
    once,       \* per lazy static: the state of its Once
    cell,       \* per lazy static: its value, <<>> while not yet set
    runs,       \* per lazy static: how many times its initializer has started
    building,   \* per thread: <<>> or <<table, entries collected so far>>
    todo,       \* per thread: the statics its call has still to dereference
    got,        \* per thread: <<>> or <<table, value>> of its last dereference
    pc          \* per thread: "idle", "running" (inside a call) or "returned"

apiVars == <<isU, plural, singular, isP, isS, rt, tests>>

caseVars == <<cand, restored>>

ruleVars == <<rules, replaced>>

lazyVars == <<once, cell, runs, building, todo, got, pc>>

vars == <<word, apiVars, caseVars, ruleVars, lazyVars>>

ApiIdle ==
    /\ isU = <<>>
    /\ plural = <<>>
    /\ singular = <<>>
    /\ isP = <<>>
    /\ isS = <<>>
    /\ rt = <<>>
    /\ tests = <<>>

CaseIdle == cand = <<>> /\ restored = <<>>

RuleIdle == rules = <<>> /\ replaced = <<>>

LazyIdle ==
    /\ once = <<>>
    /\ cell = <<>>
    /\ runs = <<>>
    /\ building = <<>>
    /\ todo = <<>>
    /\ got = <<>>
    /\ pc = <<>>

(***************************************************************************)
(* The public API as a state machine: a caller holds one word and calls    *)
(* the public functions on it, in any order; each result is kept.          *)
(***************************************************************************)
Init ==
    /\ word \in Words
    /\ ApiIdle
    /\ CaseIdle
    /\ RuleIdle
    /\ LazyIdle

IsUncountable ==
    /\ isU = <<>>
    /\ isU' = <<is_uncountable(word)>>
    /\ UNCHANGED <<word, plural, singular, isP, isS, rt, tests>>
    /\ UNCHANGED <<caseVars, ruleVars, lazyVars>>

ToPlural ==
    /\ plural = <<>>
    /\ plural' = <<to_plural(word)>>
    /\ UNCHANGED <<word, isU, singular, isP, isS, rt, tests>>
    /\ UNCHANGED <<caseVars, ruleVars, lazyVars>>

ToSingular ==
    /\ singular = <<>>
    /\ singular' = <<to_singular(word)>>
    /\ UNCHANGED <<word, isU, plural, isP, isS, rt, tests>>
    /\ UNCHANGED <<caseVars, ruleVars, lazyVars>>

IsPlural ==
    /\ isP = <<>>
    /\ isP' = <<is_plural(word)>>
    /\ UNCHANGED <<word, isU, plural, singular, isS, rt, tests>>
    /\ UNCHANGED <<caseVars, ruleVars, lazyVars>>

IsSingular ==
    /\ isS = <<>>
    /\ isS' = <<is_singular(word)>>
    /\ UNCHANGED <<word, isU, plural, singular, isP, rt, tests>>
    /\ UNCHANGED <<caseVars, ruleVars, lazyVars>>

\* to_singular called on the result of to_plural
RoundTrip ==
    /\ plural # <<>>
    /\ rt = <<>>
    /\ rt' = <<to_singular(plural[1])>>
    /\ UNCHANGED <<word, isU, plural, singular, isP, isS, tests>>
    /\ UNCHANGED <<caseVars, ruleVars, lazyVars>>

ItWorks ==
    /\ tests = <<>>
    /\ tests' = <<it_works(test_cases_txt)>>
    /\ UNCHANGED <<word, isU, plural, singular, isP, isS, rt>>
    /\ UNCHANGED <<caseVars, ruleVars, lazyVars>>

Next ==
    \/ IsUncountable
    \/ ToPlural
    \/ ToSingular
    \/ IsPlural
    \/ IsSingular
    \/ RoundTrip
    \/ ItWorks

Spec == Init /\ [][Next]_vars

(***************************************************************************)
(* restore_case as a pure function of (origin, to_restore), beside the     *)
(* to_plural call that uses it.                                            *)
(***************************************************************************)
Candidates ==
    Casings(W_oxen) \cup Casings(<<"o", "-", "u", "s">>) \cup {<<>>, <<"-">>}

InitCase ==
    /\ word \in Words
    /\ ApiIdle
    /\ CaseIdle
    /\ RuleIdle
    /\ LazyIdle

RestoreCase ==
    /\ restored = <<>>
    /\ \E c \in Candidates \cup {word} :
           /\ cand' = <<c>>
           /\ restored' = <<restore_case(word, c)>>
    /\ UNCHANGED <<word, apiVars, ruleVars, lazyVars>>

NextCase ==
    \/ RestoreCase
    \/ ToPlural

SpecCase == InitCase /\ [][NextCase]_vars

(***************************************************************************)
(* replace_with_rules as a pure function of (word, rules).  A rule list is *)
(* a sequence of indices into RulePool.                                    *)
(***************************************************************************)
\*   1  s?$ = s
\*   2  (x|ch|ss|sh|zz)$ = $1es
\*   3  (o)(u)? = $2$1-
\*   4  (s)|(u) = $1-$2$1
\*   5  u = $0
\*   6  o$ = $0s
RulePool ==
    << Rule(Cat(Opt(Lit("s")), Eol), <<"s">>),
       Rule(Cat(Grp(1, SibilantEnd), Eol), <<"$","1","e","s">>),
       Rule(Cat(Grp(1, Lit("o")), Opt(Grp(2, Lit("u")))), <<"$","2","$","1","-">>),
       Rule(Alt(Grp(1, Lit("s")), Grp(2, Lit("u"))), <<"$","1","-","$","2","$","1">>),
       Rule(Lit("u"), <<"$","0">>),
       Rule(Cat(Lit("o"), Eol), <<"$","0","s">>) >>

MaxRules == 2

RuleLists == UNION {[1..n -> DOMAIN RulePool] : n \in 0..MaxRules}

RuleAlphabet == {"o", "s", "u", "U"}

MaxRuleWordLen == 3

RuleWords == UNION {[1..n -> RuleAlphabet] : n \in 0..MaxRuleWordLen}

\* the rules a list of indices stands for
RulesOf(ids) == [k \in DOMAIN ids |-> RulePool[ids[k]]]

InitRules ==
    /\ word \in RuleWords
    /\ rules \in RuleLists
    /\ replaced = <<>>
    /\ ApiIdle
    /\ CaseIdle
    /\ LazyIdle

ReplaceWithRules ==
    /\ replaced = <<>>
    /\ replaced' = <<replace_with_rules(word, RulesOf(rules))>>
    /\ UNCHANGED <<word, rules, apiVars, caseVars, lazyVars>>

NextRules == ReplaceWithRules

SpecRules == InitRules /\ [][NextRules]_vars


(***************************************************************************)
(* The four lazy statics (lazy_static!, lines 45-67) under concurrent      *)
(* callers.  Dereferencing a static runs Once::call_once on its            *)
(* initializer and then reads the value: the first thread to arrive runs   *)
(* the initializer, which collects the entries into a Vec of its own and   *)
(* stores the finished Vec; a thread arriving meanwhile blocks until the   *)
(* Once is complete.                                                       *)
(***************************************************************************)
NumThreads == 2

Threads == 1..NumThreads

Statics == {"IRREGULAR", "PLURAL_RULES", "SINGLAR_RULES", "UNCOUNTABLE"}

\* the value a static's initializer builds
Built(t) ==
    CASE t = "IRREGULAR" -> IRREGULAR
      [] t = "PLURAL_RULES" -> PLURAL_RULES
      [] t = "SINGLAR_RULES" -> SINGLAR_RULES
      [] t = "UNCOUNTABLE" -> UNCOUNTABLE

\* the statics is_uncountable(w) dereferences, in order
uncountable_path(w) ==
    <<"IRREGULAR">> \o
        (IF irregular_component(lower_case(w), IRREGULAR) THEN <<>>
         ELSE <<"UNCOUNTABLE">>)

\* the statics a public function dereferences when called on w, in order
deref_path(f, w) ==
    CASE f = "is_uncountable" -> uncountable_path(w)
      [] f = "to_plural" ->
            uncountable_path(w) \o
                (IF is_uncountable(w) THEN <<>>
                 ELSE <<"IRREGULAR">> \o
                      (IF irregular_lookup(lower_case(w), IRREGULAR, 1, 2) # <<>>
                       THEN <<>> ELSE <<"PLURAL_RULES">>))
      [] f = "to_singular" ->
            uncountable_path(w) \o
                (IF is_uncountable(w) THEN <<>>
                 ELSE <<"IRREGULAR">> \o
                      (IF irregular_lookup(lower_case(w), IRREGULAR, 2, 1) # <<>>
                       THEN <<>> ELSE <<"SINGLAR_RULES">>))
      [] f = "is_plural" ->
            uncountable_path(w) \o
                (IF is_uncountable(w) THEN <<>>
                 ELSE <<"IRREGULAR">> \o
                      (IF irregular_decides(lower_case(w), IRREGULAR, 1, 2) # <<>>
                       THEN <<>> ELSE <<"PLURAL_RULES">>))
      [] f = "is_singular" ->
            uncountable_path(w) \o
                (IF is_uncountable(w) THEN <<>>
                 ELSE <<"IRREGULAR">> \o
                      (IF irregular_decides(lower_case(w), IRREGULAR, 2, 1) # <<>>
                       THEN <<>> ELSE <<"SINGLAR_RULES">>))

PublicFunctions ==
    {"is_uncountable", "to_plural", "to_singular", "is_plural", "is_singular"}

LazyWords == {W_water, W_child, W_word}

\* Once::call_once lets a thread run the initializer only from INCOMPLETE
\* (a compare-and-swap to RUNNING)
may_start_init_unsynchronized(t) == cell[t] = <<>>

may_start_init(t) == once[t] = "incomplete"

InitLazy ==
    /\ word = <<>>
    /\ ApiIdle
    /\ CaseIdle
    /\ RuleIdle
    /\ once = [t \in Statics |-> "incomplete"]
    /\ cell = [t \in Statics |-> <<>>]
    /\ runs = [t \in Statics |-> 0]
    /\ building = [th \in Threads |-> <<>>]
    /\ todo = [th \in Threads |-> <<>>]
    /\ got = [th \in Threads |-> <<>>]
    /\ pc = [th \in Threads |-> "idle"]

\* a thread calls a public function
Call(th) ==
    /\ pc[th] = "idle"
    /\ \E f \in PublicFunctions, w \in LazyWords :
           todo' = [todo EXCEPT ![th] = deref_path(f, w)]
    /\ pc' = [pc EXCEPT ![th] = "running"]
    /\ UNCHANGED <<once, cell, runs, building, got>>
    /\ UNCHANGED <<word, apiVars, caseVars, ruleVars>>

\* call_once finds the Once incomplete: this thread runs the initializer
StartInit(th) ==
    /\ pc[th] = "running"
    /\ building[th] = <<>>
    /\ may_start_init(Head(todo[th]))
    /\ once' = [once EXCEPT ![Head(todo[th])] = "running"]
    /\ runs' = [runs EXCEPT ![Head(todo[th])] = @ + 1]
    /\ building' = [building EXCEPT ![th] = <<Head(todo[th]), <<>>>>]
    /\ UNCHANGED <<cell, todo, got, pc>>
    /\ UNCHANGED <<word, apiVars, caseVars, ruleVars>>

\* the initializer collects the next entry
Collect(th) ==
    /\ building[th] # <<>>
    /\ Len(building[th][2]) < Len(Built(building[th][1]))
    /\ building' = [building EXCEPT ![th] =
           <<@[1], Append(@[2], Built(@[1])[Len(@[2]) + 1])>>]
    /\ UNCHANGED <<once, cell, runs, todo, got, pc>>
    /\ UNCHANGED <<word, apiVars, caseVars, ruleVars>>

\* the initializer stores the finished value and completes the Once
Publish(th) ==
    /\ building[th] # <<>>
    /\ Len(building[th][2]) = Len(Built(building[th][1]))
    /\ cell' = [cell EXCEPT ![building[th][1]] = <<building[th][2]>>]
    /\ once' = [once EXCEPT ![building[th][1]] = "complete"]
    /\ building' = [building EXCEPT ![th] = <<>>]
    /\ UNCHANGED <<runs, todo, got, pc>>
    /\ UNCHANGED <<word, apiVars, caseVars, ruleVars>>

\* the Once is complete: the thread reads the value and goes on
Read(th) ==
    /\ pc[th] = "running"
    /\ building[th] = <<>>
    /\ once[Head(todo[th])] = "complete"
    /\ got' = [got EXCEPT ![th] = <<Head(todo[th]), cell[Head(todo[th])][1]>>]
    /\ todo' = [todo EXCEPT ![th] = Tail(@)]
    /\ pc' = [pc EXCEPT ![th] = IF Tail(todo[th]) = <<>> THEN "returned" ELSE "running"]
    /\ UNCHANGED <<once, cell, runs, building>>
    /\ UNCHANGED <<word, apiVars, caseVars, ruleVars>>

NextLazy ==
    \E th \in Threads :
        \/ Call(th)
        \/ StartInit(th)
        \/ Collect(th)
        \/ Publish(th)
        \/ Read(th)

SpecLazy == InitLazy /\ [][NextLazy]_vars


(***************************************************************************)
(* Properties of the public API (specification Spec).                      *)
(***************************************************************************)
\* the lowercased word is the singular or the plural of an irregular pair
IrregularWord(w) ==
    \E k \in DOMAIN IRREGULAR :
        lower_case(w) = IRREGULAR[k][1] \/ lower_case(w) = IRREGULAR[k][2]

\* an uncountable pattern matches somewhere inside the lowercased word
PatternMatches(w) ==
    \E k \in DOMAIN UNCOUNTABLE : find_is_some(UNCOUNTABLE[k], lower_case(w))

\* the first irregular pair that has the lowercased word as a component
FirstPair(w) ==
    IRREGULAR[CHOOSE k \in DOMAIN IRREGULAR :
        /\ lower_case(w) = IRREGULAR[k][1] \/ lower_case(w) = IRREGULAR[k][2]
        /\ \A j \in 1..(k - 1) :
               lower_case(w) # IRREGULAR[j][1] /\ lower_case(w) # IRREGULAR[j][2]]

\* C1: for a word that is_uncountable reports uncountable, to_plural and
\* to_singular both return the word itself, character for character.
C1_UncountableUnchanged ==
    isU = <<TRUE>> =>
        /\ plural # <<>> => plural[1] = word
        /\ singular # <<>> => singular[1] = word

\* an uncountable word that is not all lowercase, after both conversions
C1_Witness ==
    /\ isU = <<TRUE>>
    /\ plural # <<>>
    /\ singular # <<>>
    /\ word # lower_case(word)
    /\ word # upper_case(word)

C3_UncountableBoth ==
    isU = <<TRUE>> =>
        /\ isP # <<>> => isP[1] = TRUE
        /\ isS # <<>> => isS[1] = TRUE

\* C4: is_uncountable is false for every word whose lowercased form is a
\* component of an irregular pair, whatever the uncountable patterns match;
\* for every other word it is true iff some uncountable pattern matches
\* inside the lowercased word.
C4_IrregularOverrides ==
    isU # <<>> =>
        isU[1] = (IF IrregularWord(word) THEN FALSE ELSE PatternMatches(word))

\* an irregular word that an uncountable pattern matches, reported countable
C4_Witness == isU = <<FALSE>> /\ IrregularWord(word) /\ PatternMatches(word)

TestSingulars == {test_cases_txt[k][1] : k \in DOMAIN test_cases_txt}

HasLetter(w) == \E k \in DOMAIN w : is_lowercase(w[k]) \/ is_uppercase(w[k])

\* no uppercase letter
AllLowercase(w) == \A k \in DOMAIN w : ~is_uppercase(w[k])

\* letters, none of them lowercase
AllUppercase(w) == HasLetter(w) /\ \A k \in DOMAIN w : ~is_lowercase(w[k])

\* the first character is an uppercase letter
Capitalized(w) == w # <<>> /\ is_uppercase(w[1])

\* C6: restore_case(original, candidate) tests original for equality with
\* (a) candidate, (b) its lowercase, (c) its uppercase, (d) its
\* first-letter-uppercase form, (e) its camel case form, in this order, and
\* returns candidate in the style of the first test that holds, lowercase
\* when none holds; so to_plural gives an all-lowercase result for an
\* all-lowercase input, all-uppercase for all-uppercase, capitalized for
\* capitalized.
C6_RestoreCase ==
    /\ restored # <<>> =>
           LET o == word
               c == cand[1]
               r == restored[1]
               a == o = c
               b == o = lower_case(o)
               u == o = upper_case(o)
               f == o = upper_first(o)
               e == o = camel_case(o)
           IN  /\ a => r = c
               /\ (~a /\ b) => r = lower_case(c)
               /\ (~a /\ ~b /\ u) => r = upper_case(c)
               /\ (~a /\ ~b /\ ~u /\ f) => r = upper_first(c)
               /\ (~a /\ ~b /\ ~u /\ ~f /\ e) => r = camel_case(c)
               /\ (~a /\ ~b /\ ~u /\ ~f /\ ~e) => r = lower_case(c)
    /\ plural # <<>> =>
           /\ AllLowercase(word) => AllLowercase(plural[1])
           /\ AllUppercase(word) => AllUppercase(plural[1])
           /\ Capitalized(word) => Capitalized(plural[1])

\* a capitalized origin restored by test (d), and its plural
C6_Witness ==
    /\ restored # <<>>
    /\ word # cand[1]
    /\ word # lower_case(word)
    /\ word # upper_case(word)
    /\ word = upper_first(word)
    /\ restored[1] # cand[1]
    /\ plural # <<>>
    /\ plural[1] # word

(***************************************************************************)
(* Properties of replace_with_rules (specification SpecRules).             *)
(***************************************************************************)
\* the positions of the rules whose pattern matches somewhere in word
Matching == {k \in DOMAIN rules : find_is_some(RulePool[rules[k]].pat, word)}

\* the first of them
Selected == CHOOSE k \in Matching : \A j \in Matching : k <= j

\* the last of them
LastMatching == CHOOSE k \in Matching : \A j \in Matching : j <= k

\* C9: the result of replace_with_rules depends only on the first rule, in
\* stored order, whose pattern matches somewhere in word: no later rule is
\* tried and the output is not matched again; with no matching rule the
\* result is word.
C9_FirstMatchOnly ==
    replaced # <<>> =>
        IF Matching = {} THEN replaced[1] = word
        ELSE replaced[1] = replace_with_rules(word, <<RulePool[rules[Selected]]>>)

\* two rules match and the later one would have given another result
C9_Witness ==
    /\ replaced # <<>>
    /\ Matching # {}
    /\ Selected # LastMatching
    /\ replaced[1] # replace_with_rules(word, <<RulePool[rules[LastMatching]]>>)
    /\ replaced[1] # replace_with_rules(replaced[1], RulesOf(rules))

\* the template t with every $1 replaced by g1 and every $2 by g2, in one pass
RECURSIVE Substitute(_, _, _)
Substitute(t, g1, g2) ==
    IF t = <<>> THEN <<>>
    ELSE IF Len(t) >= 2 /\ t[1] = "$" /\ t[2] = "1"
    THEN g1 \o Substitute(SubSeq(t, 3, Len(t)), g1, g2)
    ELSE IF Len(t) >= 2 /\ t[1] = "$" /\ t[2] = "2"
    THEN g2 \o Substitute(SubSeq(t, 3, Len(t)), g1, g2)
    ELSE <<t[1]>> \o Substitute(Tail(t), g1, g2)

\* the match of the selected rule
SelectedMatch == captures(RulePool[rules[Selected]].pat, word)[1]

\* the text of group n of the selected rule's match, empty for an absent group
SelectedGroup(n) ==
    IF SelectedMatch.groups[n] = <<>> THEN <<>>
    ELSE SubSeq(word, SelectedMatch.groups[n][1] + 1, SelectedMatch.groups[n][2])

\* C10: for the selected rule, a template that is exactly "$0" gives word
\* unchanged; any other template gives the part of word before the start of
\* the match, followed by the template with every "$1" replaced by the text
\* of group 1 and every "$2" by the text of group 2 (empty for a group that
\* took no part in the match), and nothing of word from the match on.
C10_Substitution ==
    (replaced # <<>> /\ Matching # {}) =>
        IF RulePool[rules[Selected]].tmpl = <<"$", "0">>
        THEN replaced[1] = word
        ELSE replaced[1] =
                 SubSeq(word, 1, SelectedMatch.start)
                     \o Substitute(RulePool[rules[Selected]].tmpl,
                                   SelectedGroup(1), SelectedGroup(2))

\* a match inside the word, group 2 absent, a template with $1 and $2
C10_Witness ==
    /\ replaced # <<>>
    /\ Matching # {}
    /\ rules[Selected] = 3
    /\ SelectedMatch.start > 0
    /\ SelectedMatch.end < Len(word)
    /\ SelectedMatch.groups[1] # <<>>
    /\ SelectedMatch.groups[2] = <<>>


(***************************************************************************)
(* Properties of the lazy statics (specification SpecLazy).                *)
(***************************************************************************)
\* every initializer has run at most once, a stored value is the complete
\* table, and every value a caller has read is the complete table
LazyBuiltOnce ==
    /\ \A t \in Statics :
           /\ runs[t] <= 1
           /\ cell[t] # <<>> =>
                  /\ runs[t] = 1
                  /\ once[t] = "complete"
                  /\ cell[t][1] = Built(t)
    /\ \A th \in Threads : got[th] # <<>> => got[th][2] = Built(got[th][1])

\* a step never changes a table that has been stored
LazyStable == \A t \in Statics : cell[t] # <<>> => cell'[t] = cell[t]

\* C8: under concurrent first calls each of the four tables is built by
\* exactly one initializer run, every caller reads only a fully built
\* table, and no call changes a table once it is built.
C8_OneTimeInit == [](LazyBuiltOnce) /\ [][LazyStable]_vars

\* one thread is inside an initializer with a partial table while another
\* thread, which has already read a finished table, waits for the same static
C8_Witness ==
    \E a, b \in Threads :
        /\ a # b
        /\ building[a] # <<>>
        /\ Len(building[a][2]) > 0
        /\ Len(building[a][2]) < Len(Built(building[a][1]))
        /\ pc[b] = "running"
        /\ Head(todo[b]) = building[a][1]
        /\ got[b] # <<>>

=============================================================================
